---- MODULE Spec2Model ----
(***************************************************************************)
(* A model of main.py of arxiv_latex_downloader: identifier parsing, the  *)
(* archive cache, extraction, entry-point detection and the recursive     *)
(* include inliner.                                                        *)
(*                                                                         *)
(* Strings that the code takes apart (URLs) are sequences of one-character *)
(* strings; file names are records [stem, ext] so that endswith('.tex'),   *)
(* "+= '.tex'" and lower() are computed and not assumed.                   *)
(***************************************************************************)
EXTENDS Integers, Sequences, FiniteSets, TLC

VARIABLES
    \* ---- parse_arxiv_id (SpecParse)
    url,          \* the reference string given to parse_arxiv_id
    arxiv_id,     \* what parse_arxiv_id returned for url
    reparsed,     \* what parse_arxiv_id returned for that identifier
    parsePhase,   \* "input" | "parsed" | "reparsed" | "located"
    \* ---- get_cache_subdir for two references (SpecKeys; it shares url and
    \* arxiv_id)
    url2,         \* a second reference string
    arxiv_id2,    \* what parse_arxiv_id returned for url2
    cache_subdirs, \* what get_cache_subdir returned for the two identifiers
    \* ---- inline_tex / combine_tex_files (SpecInline)
    fs,           \* the extracted tree: path -> [readable, content]
    main_tex,     \* the entry file given to combine_tex_files
    combined,     \* what the top-level inline_tex call produced
    inlinePhase,  \* "input" | "done"
    \* ---- find_main_tex (SpecDetect; it shares fs and main_tex)
    walk,         \* the files of the tree in the order os.walk yields them
    detectPhase,  \* "input" | "done"
    \* ---- process_arxiv_link on the shared cache directory (Spec)
    tar_filter,   \* what extractall does with a member outside the destination
    disk,         \* the files below CACHE_DIR: path -> bytes
    dirs,         \* the cache subdirectories that exist
    proc,         \* each running instance: its place in process_arxiv_link,
                  \* its locals, its text widget, and a record of what it did
    stored,       \* per cache subdirectory, the archive cache_tar last stored
    started       \* the requests started so far

parseVars == <<url, arxiv_id, reparsed, parsePhase, url2, arxiv_id2, cache_subdirs>>
inlineVars == <<fs, main_tex, combined, inlinePhase>>
detectVars == <<walk, detectPhase>>
pipeVars == <<tar_filter, disk, dirs, proc, stored, started>>
vars == <<parseVars, inlineVars, detectVars, pipeVars>>

\* Python's None and a result not computed yet, as values comparable with
\* the character sequences they stand in for
None == <<"None">>
Pending == <<"Pending">>
\* None where a path is expected: a record, as paths are
NoPath == [dir |-> <<"None">>, name |-> [stem |-> "", ext |-> ""]]

\* the variables of the second reference when a specification has none
KeysIdle ==
    /\ url2 = << >>
    /\ arxiv_id2 = Pending
    /\ cache_subdirs = Pending

\* the variables of the parser when a specification does not run it
ParseIdle ==
    /\ url = << >>
    /\ arxiv_id = Pending
    /\ reparsed = Pending
    /\ parsePhase = "idle"
    /\ KeysIdle

\* the variables of the inliner when a specification does not run it
InlineIdle ==
    /\ fs = << >>
    /\ main_tex = NoPath
    /\ combined = Pending
    /\ inlinePhase = "idle"

\* the variables of the entry-point detector when a specification does not
\* run it
DetectIdle ==
    /\ walk = << >>
    /\ detectPhase = "idle"

\* the variables of the pipeline when a specification does not run it
PipeIdle ==
    /\ tar_filter = "idle"
    /\ disk = << >>
    /\ dirs = {}
    /\ proc = << >>
    /\ stored = << >>
    /\ started = 0

(***************************************************************************)
(* parse_arxiv_id                                                          *)
(***************************************************************************)
Digits == {"0", "1", "2", "3", "4", "5", "6", "7", "8", "9"}
LowerLetters ==
    {"a", "b", "c", "d", "e", "f", "g", "h", "i", "j", "k", "l", "m",
     "n", "o", "p", "q", "r", "s", "t", "u", "v", "w", "x", "y", "z"}

\* \d
IsDigit(c) == c \in Digits
\* [a-z\-]
SegChars == LowerLetters \cup {"-"}

\* the literals of the pattern
LitArxivOrg == <<"a", "r", "x", "i", "v", ".", "o", "r", "g", "/">>
LitAbs == <<"a", "b", "s">>
LitPdf == <<"p", "d", "f">>
LitSlash == <<"/">>

\* \d{7}: the repetition count of the legacy form
LegacyDigits == 7

\* s has the literal lit at position i
HasAt(s, i, lit) ==
    /\ i + Len(lit) - 1 <= Len(s)
    /\ \A t \in 1..Len(lit) : s[i + t - 1] = lit[t]

\* the length of the longest run of characters of the set cls that starts at
\* k: what a greedy X+ takes (no shorter run can be followed by a character
\* outside the class, so backtracking never helps these patterns)
RunLen(s, k, cls) ==
    CHOOSE n \in 0..Len(s) :
        /\ k + n - 1 <= Len(s)
        /\ \A t \in k..(k + n - 1) : s[t] \in cls
        /\ (k + n > Len(s) \/ s[k + n] \notin cls)

\* [a-z\-]+/\d{7} at position k: the matched text, or None
MatchLegacy(s, k) ==
    LET n == RunLen(s, k, SegChars)
    IN  IF /\ n >= 1
           /\ HasAt(s, k + n, LitSlash)
           /\ k + n + LegacyDigits <= Len(s)
           /\ \A t \in 1..LegacyDigits : IsDigit(s[k + n + t])
        THEN SubSeq(s, k, k + n + LegacyDigits)
        ELSE None

\* (\d+\.\d+) at position k: the matched text, or None
MatchModern(s, k) ==
    LET m == RunLen(s, k, Digits)
        r == RunLen(s, k + m + 1, Digits)
    IN  IF m >= 1 /\ HasAt(s, k + m, <<".">>) /\ r >= 1
        THEN SubSeq(s, k, k + m + r)
        ELSE None

\* the whole pattern anchored at position i: group(1), or None
MatchAt(s, i) ==
    LET j == i + Len(LitArxivOrg)
        k == j + Len(LitAbs) + Len(LitSlash)
    IN  IF /\ HasAt(s, i, LitArxivOrg)
           /\ (HasAt(s, j, LitAbs) \/ HasAt(s, j, LitPdf))
           /\ HasAt(s, j + Len(LitAbs), LitSlash)
        THEN IF MatchLegacy(s, k) # None THEN MatchLegacy(s, k)
             ELSE MatchModern(s, k)
        ELSE None

\* re.search(...): the leftmost position where the pattern matches
parse_arxiv_id(s) ==
    LET hits == {i \in 1..Len(s) : MatchAt(s, i) # None}
    IN  IF hits = {} THEN None
        ELSE MatchAt(s, CHOOSE i \in hits : \A h \in hits : i <= h)

(***************************************************************************)
(* inline_tex and combine_tex_files                                        *)
(*                                                                         *)
(* A path is [dir, name]: the directories below the extraction root and a  *)
(* file name [stem, ext].  The argument of a directive is [segs, name]:    *)
(* the directory segments written before the file name ("." and ".."       *)
(* among them) and the name as written.  A file's content is a sequence of *)
(* items: literal text, or an \input / \include directive.  The text of a  *)
(* file is tagged with the file's path, so that each file's own text can   *)
(* be told apart in the output.                                            *)
(***************************************************************************)
TexExt == ".tex"

Name(stem, ext) == [stem |-> stem, ext |-> ext]
Path(dir, name) == [dir |-> dir, name |-> name]
Arg(segs, name) == [segs |-> segs, name |-> name]

TextItem(p, k) == [kind |-> "text", a |-> p, b |-> k]
DirectiveItem(cmd, arg) == [kind |-> "directive", a |-> cmd, b |-> arg]
\* the marker comments of lines 170, 184, 186 and 191
ErrorReadingMarker(name) == [kind |-> "% Error reading file", a |-> name, b |-> 0]
SkippingMarker(rel) == [kind |-> "% Skipping already included file", a |-> rel, b |-> 0]
NotFoundMarker(rel) == [kind |-> "% File not found", a |-> rel, b |-> 0]
RecursionLimitMarker(rel) ==
    [kind |-> "% Recursion limit reached while including", a |-> rel, b |-> 0]

\* max_depth=10, the default of inline_tex that combine_tex_files relies on
max_depth == 10

\* relative_path.endswith('.tex')
EndsWithTex(name) == name.ext = TexExt
\* relative_path += '.tex'
AddTex(name) == Name(name.stem \o name.ext, TexExt)
\* lines 178-179
WithTex(arg) ==
    IF EndsWithTex(arg.name) THEN arg ELSE Arg(arg.segs, AddTex(arg.name))

\* os.path.normpath on the directory part: "." is dropped, ".." removes
\* the directory before it, and stays when there is none to remove
RECURSIVE NormSegs(_, _)
NormSegs(done, rest) ==
    IF rest = << >> THEN done
    ELSE LET h == Head(rest)
         IN  IF h = "." THEN NormSegs(done, Tail(rest))
             ELSE IF /\ h = ".."
                     /\ done # << >>
                     /\ done[Len(done)] # ".."
                  THEN NormSegs(SubSeq(done, 1, Len(done) - 1), Tail(rest))
                  ELSE NormSegs(Append(done, h), Tail(rest))

\* lines 180-182: normpath(join(dirname(file_path), relative_path))
ResolveIncluded(file_path, rel) ==
    Path(NormSegs(<< >>, file_path.dir \o rel.segs), rel.name)

\* os.path.exists(included_path)
Exists(tree, p) == p \in DOMAIN tree
\* open(file_path) and f.read() succeed
CanRead(tree, p) == Exists(tree, p) /\ tree[p].readable

\* One entry of the record kept of what replace_match did with a directive:
\* the including file, the depth it is inlined at, the resolved target and
\* the branch taken.
LogEntry(file_path, depth, rel, included_path, outcome) ==
    [file |-> file_path, depth |-> depth, rel |-> rel,
     target |-> included_path, outcome |-> outcome]

Returned(out, included, log) ==
    [raised |-> FALSE, out |-> out, included |-> included, log |-> log]
\* raise RecursionError (line 164); included_files keeps what was added
Raised(included, log) ==
    [raised |-> TRUE, out |-> << >>, included |-> included, log |-> log]

RECURSIVE inline_tex(_, _, _, _)
RECURSIVE SubItems(_, _, _, _, _)

\* replace_match with the target put into included_files before it is known
\* to exist
replace_match_MarksMissing(tree, file_path, arg, included_files, depth) ==
    LET rel == WithTex(arg)
        included_path == ResolveIncluded(file_path, rel)
        entry(o) == <<LogEntry(file_path, depth, rel, included_path, o)>>
    IN  IF included_path \in included_files
        THEN Returned(<<SkippingMarker(rel)>>, included_files, entry("skipped"))
        ELSE IF ~Exists(tree, included_path)
        THEN Returned(<<NotFoundMarker(rel)>>,
                      included_files \cup {included_path}, entry("notfound"))
        ELSE LET r == inline_tex(tree, included_path,
                                 included_files \cup {included_path}, depth + 1)
             IN  IF r.raised
                 THEN Returned(<<RecursionLimitMarker(rel)>>, r.included,
                               entry("limit") \o r.log)
                 ELSE Returned(r.out, r.included, entry("inlined") \o r.log)

\* replace_match without line 187: the target is not put into included_files
replace_match_NoVisitedAdd(tree, file_path, arg, included_files, depth) ==
    LET rel == WithTex(arg)
        included_path == ResolveIncluded(file_path, rel)
        entry(o) == <<LogEntry(file_path, depth, rel, included_path, o)>>
    IN  IF included_path \in included_files
        THEN Returned(<<SkippingMarker(rel)>>, included_files, entry("skipped"))
        ELSE IF ~Exists(tree, included_path)
        THEN Returned(<<NotFoundMarker(rel)>>, included_files, entry("notfound"))
        ELSE LET r == inline_tex(tree, included_path, included_files, depth + 1)
             IN  IF r.raised
                 THEN Returned(<<RecursionLimitMarker(rel)>>, r.included,
                               entry("limit") \o r.log)
                 ELSE Returned(r.out, r.included, entry("inlined") \o r.log)

\* replace_match without the except clause of lines 190-191: RecursionError
\* leaves replace_match
replace_match_NoExcept(tree, file_path, arg, included_files, depth) ==
    LET rel == WithTex(arg)
        included_path == ResolveIncluded(file_path, rel)
        entry(o) == <<LogEntry(file_path, depth, rel, included_path, o)>>
    IN  IF included_path \in included_files
        THEN Returned(<<SkippingMarker(rel)>>, included_files, entry("skipped"))
        ELSE IF ~Exists(tree, included_path)
        THEN Returned(<<NotFoundMarker(rel)>>, included_files, entry("notfound"))
        ELSE LET r == inline_tex(tree, included_path,
                                 included_files \cup {included_path}, depth + 1)
             IN  IF r.raised
                 THEN Raised(r.included, entry("limit") \o r.log)
                 ELSE Returned(r.out, r.included, entry("inlined") \o r.log)

\* replace_match (lines 175-191) for one directive of file_path
replace_match(tree, file_path, arg, included_files, depth) ==
    LET rel == WithTex(arg)
        included_path == ResolveIncluded(file_path, rel)
        entry(o) == <<LogEntry(file_path, depth, rel, included_path, o)>>
    IN  IF included_path \in included_files
        THEN Returned(<<SkippingMarker(rel)>>, included_files, entry("skipped"))
        ELSE IF ~Exists(tree, included_path)
        THEN Returned(<<NotFoundMarker(rel)>>, included_files, entry("notfound"))
        ELSE LET r == inline_tex(tree, included_path,
                                 included_files \cup {included_path}, depth + 1)
             IN  IF r.raised
                 THEN Returned(<<RecursionLimitMarker(rel)>>, r.included,
                               entry("limit") \o r.log)
                 ELSE Returned(r.out, r.included, entry("inlined") \o r.log)

\* pattern.sub(replace_match, content) (line 194): the items from left to
\* right, every directive replaced by what replace_match returns for it; an
\* exception that leaves replace_match leaves pattern.sub
SubItems(tree, file_path, items, included_files, depth) ==
    IF items = << >> THEN Returned(<< >>, included_files, << >>)
    ELSE LET it == Head(items)
             r == IF it.kind = "directive"
                  THEN replace_match(tree, file_path, it.b, included_files, depth)
                  ELSE Returned(<<it>>, included_files, << >>)
         IN  IF r.raised THEN r
             ELSE LET rest == SubItems(tree, file_path, Tail(items),
                                       r.included, depth)
                  IN  IF rest.raised
                      THEN Raised(rest.included, r.log \o rest.log)
                      ELSE Returned(r.out \o rest.out, rest.included,
                                    r.log \o rest.log)

\* inline_tex raising already at depth max_depth
inline_tex_RaisesAtBound(tree, file_path, included_files, depth) ==
    IF depth >= max_depth THEN Raised(included_files, << >>)
    ELSE IF ~CanRead(tree, file_path)
    THEN Returned(<<ErrorReadingMarker(file_path.name)>>, included_files, << >>)
    ELSE SubItems(tree, file_path, tree[file_path].content, included_files, depth)

\* inline_tex (lines 157-195)
inline_tex(tree, file_path, included_files, depth) ==
    IF depth > max_depth THEN Raised(included_files, << >>)
    ELSE IF ~CanRead(tree, file_path)
    THEN Returned(<<ErrorReadingMarker(file_path.name)>>, included_files, << >>)
    ELSE SubItems(tree, file_path, tree[file_path].content, included_files, depth)

\* combine_tex_files (lines 197-208): inline_tex(main_tex, extract_path) with
\* included_files=None, that is the empty set, and depth 0; None when
\* RecursionError escapes
combine_tex_files(tree, entry) ==
    LET r == inline_tex(tree, entry, {}, 0)
    IN  IF r.raised THEN [r EXCEPT !.out = None] ELSE r

\* ---- the trees the inliner is run on
MaxDirectives == 3     \* directives in a small tree, all files together

RootDir == << >>
SubDir == <<"s">>
PathA == Path(RootDir, Name("a", TexExt))
PathB == Path(RootDir, Name("b", TexExt))
PathC == Path(SubDir, Name("c", TexExt))
SmallPaths == {PathA, PathB, PathC}

\* directives as written in a file of a small tree; "d" names no file
SmallDirectives ==
    {DirectiveItem("input", Arg(<< >>, Name("a", ""))),
     DirectiveItem("include", Arg(<<".">>, Name("b", ""))),
     DirectiveItem("input", Arg(<< >>, Name("b", TexExt))),
     DirectiveItem("input", Arg(<<"s">>, Name("c", ""))),
     DirectiveItem("input", Arg(<<"..">>, Name("a", TexExt))),
     DirectiveItem("input", Arg(<< >>, Name("d", "")))}

\* the directives of the placement sequence pl that were put into file p
RECURSIVE PlacedIn(_, _)
PlacedIn(pl, p) ==
    IF pl = << >> THEN << >>
    ELSE IF Head(pl)[1] = p THEN <<Head(pl)[2]>> \o PlacedIn(Tail(pl), p)
         ELSE PlacedIn(Tail(pl), p)

SmallTree(pl, unreadable) ==
    [p \in SmallPaths |->
        [readable |-> p \notin unreadable,
         content |-> <<TextItem(p, 1)>> \o PlacedIn(pl, p) \o <<TextItem(p, 2)>>]]

InitSmallTree ==
    \E k \in 0..MaxDirectives :
        \E pl \in [1..k -> SmallPaths \X SmallDirectives] :
            \E unreadable \in {{}} \cup {{p} : p \in SmallPaths} :
                /\ fs = SmallTree(pl, unreadable)
                /\ main_tex \in SmallPaths

\* a chain c0 -> c1 -> ... -> c<last>, and one more directive in c<holder>,
\* before or after the chain's directive, naming c<target>
ChainStems ==
    <<"c0", "c1", "c2", "c3", "c4", "c5", "c6", "c7", "c8", "c9", "c10",
      "c11", "c12">>
ChainPath(i) == Path(RootDir, Name(ChainStems[i + 1], TexExt))
ChainInput(i) == DirectiveItem("input", Arg(<< >>, Name(ChainStems[i + 1], "")))

ChainTree(last, holder, first, target) ==
    [p \in {ChainPath(i) : i \in 0..last} |->
        LET i == CHOOSE i \in 0..last : ChainPath(i) = p
            link == IF i < last THEN <<ChainInput(i + 1)>> ELSE << >>
            extra == IF i = holder THEN <<ChainInput(target)>> ELSE << >>
        IN  [readable |-> TRUE,
             content |-> <<TextItem(p, 1)>>
                         \o (IF first THEN extra \o link ELSE link \o extra)
                         \o <<TextItem(p, 2)>>]]

InitChainTree ==
    \E last \in max_depth..(max_depth + 1) :
        \E holder \in 0..last, first \in BOOLEAN, target \in 0..(max_depth + 2) :
            /\ fs = ChainTree(last, holder, first, target)
            /\ main_tex = ChainPath(0)

\* a chain c0 -> c1 -> ... -> c<last> and no other directive
InitPlainChain ==
    \E last \in 0..(max_depth + 1) :
        /\ fs = ChainTree(last, last + 1, TRUE, 0)
        /\ main_tex = ChainPath(0)

InitInline ==
    /\ InitSmallTree \/ InitChainTree \/ InitPlainChain
    /\ combined = Pending
    /\ inlinePhase = "input"
    /\ ParseIdle
    /\ DetectIdle
    /\ PipeIdle

\* process_arxiv_link, line 249: combined_tex = combine_tex_files(main_tex, ...)
CombineTexFiles ==
    /\ inlinePhase = "input"
    /\ combined' = combine_tex_files(fs, main_tex)
    /\ inlinePhase' = "done"
    /\ UNCHANGED <<fs, main_tex, parseVars, detectVars, pipeVars>>

NextInline == CombineTexFiles
SpecInline == InitInline /\ [][NextInline]_vars

\* how often item x occurs in the sequence out
RECURSIVE Count(_, _)
Count(x, out) ==
    IF out = << >> THEN 0
    ELSE (IF Head(out) = x THEN 1 ELSE 0) + Count(x, Tail(out))

\* C1: in one run started with an empty visited set no file's content is
\* substituted into the output more than once, the entry file included.
C1_ContentAtMostOnce ==
    inlinePhase = "done" =>
        \A p \in DOMAIN fs : Count(TextItem(p, 1), combined.out) <= 1

\* the outcomes replace_match had in the run
Outcomes == {combined.log[i].outcome : i \in 1..Len(combined.log)}

\* C2: when a chain of inclusions goes deeper than the bound, only a
\* directive whose target would be inlined at a depth greater than max_depth
\* gets the recursion-limit marker, and every directive whose target exists
\* and would be inlined at a depth within the bound is replaced by the
\* target's content (a directive whose target's content is already in the
\* output falls under the already-included rule and may be skipped).
C2_OnlyDeepBranchTruncated ==
    (inlinePhase = "done" /\ "limit" \in Outcomes) =>
        \A i \in 1..Len(combined.log) :
            LET e == combined.log[i]
            IN  /\ e.outcome = "limit" => e.depth + 1 > max_depth
                /\ (e.depth + 1 <= max_depth /\ Exists(fs, e.target)) =>
                        \/ e.outcome = "inlined"
                        \/ /\ e.outcome = "skipped"
                           /\ Count(TextItem(e.target, 1), combined.out) >= 1

\* the directive item of file_path names a file that does not exist
IsMissing(tree, file_path, it) ==
    /\ it.kind = "directive"
    /\ ~Exists(tree, ResolveIncluded(file_path, WithTex(it.b)))

\* the tree with every directive that names a missing file taken out
WithoutMissing(tree) ==
    [p \in DOMAIN tree |->
        LET Keep(it) == ~IsMissing(tree, p, it)
        IN  [tree[p] EXCEPT !.content = SelectSeq(tree[p].content, Keep)]]

\* the tree with every directive that names a missing file replaced, where
\* it stands, by the literal text of the not-found marker
WithMissingMarked(tree) ==
    [p \in DOMAIN tree |->
        [tree[p] EXCEPT !.content =
            [k \in 1..Len(tree[p].content) |->
                LET it == tree[p].content[k]
                IN  IF IsMissing(tree, p, it)
                    THEN NotFoundMarker(WithTex(it.b))
                    ELSE it]]]

IsNoNotFoundMarker(it) == it.kind # "% File not found"

\* C7: a directive whose target does not exist is replaced where it stands by
\* the not-found marker, its target is not put into the visited set, and all
\* other directives are replaced as they are in the same tree without the
\* missing directives.
C7_MissingIncludeIsLocal ==
    inlinePhase = "done" =>
        LET marked == combine_tex_files(WithMissingMarked(fs), main_tex)
            without == combine_tex_files(WithoutMissing(fs), main_tex)
        IN  /\ combined.included \subseteq DOMAIN fs
            /\ marked.out = combined.out
            /\ marked.included = combined.included
            /\ without.out = SelectSeq(combined.out, IsNoNotFoundMarker)
            /\ without.included = combined.included

\* a run in which a missing directive is followed by one that is inlined and
\* by another missing one
C7_MissingThenInlined ==
    /\ inlinePhase = "done"
    /\ \E i, j, k \in 1..Len(combined.log) :
        /\ i < j /\ j < k
        /\ combined.log[i].outcome = "notfound"
        /\ combined.log[j].outcome = "inlined"
        /\ combined.log[k].outcome = "notfound"
        /\ combined.log[k].target = combined.log[i].target

\* ---- the include graph of a tree, as the directives of its files give it
\* the positions of the directives in the content of file p
DirectivesOf(tree, p) ==
    IF CanRead(tree, p)
    THEN {k \in 1..Len(tree[p].content) : tree[p].content[k].kind = "directive"}
    ELSE {}
\* the path the k-th item of file p, a directive, resolves to
TargetOf(tree, p, k) == ResolveIncluded(p, WithTex(tree[p].content[k].b))
TargetsOf(tree, p) == {TargetOf(tree, p, k) : k \in DirectivesOf(tree, p)}

\* the paths that a chain of n directives leads to from the entry file
RECURSIVE Level(_, _, _)
Level(tree, entry, n) ==
    IF n = 0 THEN {entry}
    ELSE UNION {TargetsOf(tree, p) : p \in Level(tree, entry, n - 1)}

Reachable(tree, entry) ==
    UNION {Level(tree, entry, n) : n \in 0..Cardinality(DOMAIN tree)}

\* no chain of directives from the entry file comes back to a file of the
\* chain: a cycle gives chains of every length
Acyclic(tree, entry) == Level(tree, entry, Cardinality(DOMAIN tree)) = {}
\* no file is more than max_depth directives away from the entry file
WithinBound(tree, entry) == Level(tree, entry, max_depth + 1) = {}
\* every file that is reached can be read
AllReadable(tree, entry) == \A p \in Reachable(tree, entry) : CanRead(tree, p)
\* no file is the target of two directives of the files that are reached
IncludedOnce(tree, entry) ==
    LET directives ==
            UNION {{<<p, k>> : k \in DirectivesOf(tree, p)} :
                      p \in Reachable(tree, entry)}
    IN  \A q \in Reachable(tree, entry) :
            Cardinality({pk \in directives :
                            TargetOf(tree, pk[1], pk[2]) = q}) <= 1

\* the text of file p with every directive replaced, recursively, by the
\* text of its target
RECURSIVE Expand(_, _)
RECURSIVE ExpandItems(_, _, _)
ExpandItems(tree, p, items) ==
    IF items = << >> THEN << >>
    ELSE LET it == Head(items)
         IN  (IF it.kind = "directive"
              THEN Expand(tree, ResolveIncluded(p, WithTex(it.b)))
              ELSE <<it>>)
             \o ExpandItems(tree, p, Tail(items))
Expand(tree, p) == ExpandItems(tree, p, tree[p].content)

MarkerKinds ==
    {"% Error reading file", "% Skipping already included file",
     "% File not found", "% Recursion limit reached while including"}
HasMarker(out) == \E k \in 1..Len(out) : out[k].kind \in MarkerKinds

\* the include graph below the entry file is acyclic, within the bound, all
\* its files exist and can be read, and each is included by one directive
\* at most
FullyExpandable(tree, entry) ==
    /\ Acyclic(tree, entry)
    /\ WithinBound(tree, entry)
    /\ AllReadable(tree, entry)
    /\ IncludedOnce(tree, entry)

\* C11: for an include graph that is acyclic, no deeper than max_depth, whose
\* files all exist and can be read and in which each file is included by at
\* most one directive, the output is the entry file's text with every
\* directive replaced, recursively, by the content of its target, and it
\* holds no marker comment.
C11_FullExpansion ==
    (inlinePhase = "done" /\ FullyExpandable(fs, main_tex)) =>
        /\ ~combined.raised
        /\ combined.out = Expand(fs, main_tex)
        /\ ~HasMarker(combined.out)

\* a fully expandable graph whose deepest file is inlined at depth max_depth
C11_ExpandedToTheBound ==
    /\ inlinePhase = "done"
    /\ FullyExpandable(fs, main_tex)
    /\ \E i \in 1..Len(combined.log) :
        /\ combined.log[i].depth + 1 = max_depth
        /\ combined.log[i].outcome = "inlined"

\* the directives of the run for which replace_match called inline_tex
\* (line 189), whether the call returned or raised
RecursiveCalls ==
    {i \in 1..Len(combined.log) : combined.log[i].outcome \in {"inlined", "limit"}}

\* C12: a top-level call ends after finitely many recursive calls, whatever
\* the include relation: inline_tex is called recursively only for paths
\* that exist, and at most once for each of them.
C12_OneCallPerPath ==
    inlinePhase = "done" =>
        /\ \A i \in RecursiveCalls : Exists(fs, combined.log[i].target)
        /\ \A i, j \in RecursiveCalls :
                combined.log[i].target = combined.log[j].target => i = j
        /\ Cardinality(RecursiveCalls) <= Cardinality(DOMAIN fs)

\* a run on a cycle through all three files of a small tree: each of them
\* was inlined by a recursive call and the directive closing the cycle
\* was skipped
C12_CycleOfThreeEnded ==
    /\ inlinePhase = "done"
    /\ ~Acyclic(fs, main_tex)
    /\ combined.included = SmallPaths
    /\ \A p \in SmallPaths : Cardinality(TargetsOf(fs, p)) = 1
    /\ "skipped" \in Outcomes

\* C13: RecursionError never leaves the top-level inline_tex call, so
\* combine_tex_files never returns None (and process_arxiv_link never takes
\* the branch of line 250); when the entry file cannot be read the output is
\* the error-reading marker and nothing else.
C13_CombineNeverFails ==
    inlinePhase = "done" =>
        /\ ~combined.raised
        /\ ~CanRead(fs, main_tex) =>
                combined.out = <<ErrorReadingMarker(main_tex.name)>>

\* RecursionError was raised below the top-level call, the directive it
\* came back to got the recursion-limit marker, and the entry file's text
\* before and after is in the output
C13_LimitContained ==
    /\ inlinePhase = "done"
    /\ "limit" \in Outcomes
    /\ \E k \in 1..Len(combined.out) :
            combined.out[k].kind = "% Recursion limit reached while including"
    /\ Count(TextItem(main_tex, 1), combined.out) >= 1
    /\ Count(TextItem(main_tex, 2), combined.out) >= 1

\* C17: when the run has ended, the content of every path of the visited
\* set is in the output, and the skipping marker was emitted only for paths
\* whose content is in the output.
C17_VisitedSetSound ==
    inlinePhase = "done" =>
        /\ \A p \in combined.included :
                Count(TextItem(p, 1), combined.out) >= 1
        /\ \A i \in 1..Len(combined.log) :
                combined.log[i].outcome = "skipped" =>
                    Count(TextItem(combined.log[i].target, 1), combined.out) >= 1

(***************************************************************************)
(* find_main_tex                                                           *)
(*                                                                         *)
(* The tree is fs, and walk lists its files in the order os.walk yields    *)
(* them.  A file is [readable, content, size]; the structural commands a   *)
(* file contains are text items of its content.                            *)
(***************************************************************************)
\* str.lower() on the strings file names are made of
LowerStr(str) ==
    CASE str = "MAIN" -> "main"
      [] str = "Main" -> "main"
      [] str = "Paper" -> "paper"
      [] str = ".TEX" -> ".tex"
      [] str = ".Tex" -> ".tex"
      [] OTHER -> str

\* os.path.basename(file).lower()
LowerBasename(p) == LowerStr(p.name.stem) \o LowerStr(p.name.ext)

\* line 118
common_names ==
    <<"main.tex", "paper.tex", "content.tex", "article.tex", "thesis.tex">>
IsCommonName(p) ==
    \E k \in 1..Len(common_names) : LowerBasename(p) = common_names[k]

\* lines 125-132
essential_commands ==
    <<"\\documentclass", "\\begin{document}", "\\title{", "\\author{",
      "\\maketitle", "\\usepackage">>

CommandItem(cmd) == [kind |-> "text", a |-> cmd, b |-> 0]
\* re.search(cmd, content)
Contains(content, cmd) ==
    \E k \in 1..Len(content) : content[k] = CommandItem(cmd)

\* lines 138-141: one point for each command found
Score(content) ==
    Cardinality({k \in 1..Len(essential_commands) :
                    Contains(content, essential_commands[k])})

\* the positions of seq whose element satisfies nothing but being in set keep
RECURSIVE Filter(_, _)
Filter(seq, keep) ==
    IF seq = << >> THEN << >>
    ELSE IF Head(seq) \in keep THEN <<Head(seq)>> \o Filter(Tail(seq), keep)
         ELSE Filter(Tail(seq), keep)

\* lines 109-113: the files whose name ends with '.tex', in walk order
TexFiles(tree, order) ==
    Filter(order, {p \in DOMAIN tree : EndsWithTex(p.name)})

\* the first element of seq that is in set cands (cands holds one at least)
FirstIn(seq, cands) ==
    seq[CHOOSE k \in 1..Len(seq) :
            /\ seq[k] \in cands
            /\ \A j \in 1..(k - 1) : seq[j] \notin cands]

\* lines 119-121
FirstCommonName(tex_files) ==
    LET hits == {tex_files[k] : k \in {j \in 1..Len(tex_files) : IsCommonName(tex_files[j])}}
    IN  IF hits = {} THEN NoPath ELSE FirstIn(tex_files, hits)

\* the last element of seq that is in set cands
LastIn(seq, cands) ==
    seq[CHOOSE k \in 1..Len(seq) :
            /\ seq[k] \in cands
            /\ \A j \in (k + 1)..Len(seq) : seq[j] \notin cands]

\* BestScored with a later file of the same score replacing the earlier one
BestScored_LastWins(tree, tex_files) ==
    LET scored == {tex_files[k] : k \in {j \in 1..Len(tex_files) : tree[tex_files[j]].readable}}
        top == {p \in scored :
                   \A q \in scored : Score(tree[q].content) <= Score(tree[p].content)}
    IN  IF scored = {} THEN NoPath
        ELSE LET main == LastIn(tex_files, top)
             IN  IF Score(tree[main].content) > 0 THEN main ELSE NoPath

\* lines 134-151: candidate_scores holds the files that could be read, in
\* tex_files order; max() returns the first key of the highest score
BestScored(tree, tex_files) ==
    LET scored == {tex_files[k] : k \in {j \in 1..Len(tex_files) : tree[tex_files[j]].readable}}
        top == {p \in scored :
                   \A q \in scored : Score(tree[q].content) <= Score(tree[p].content)}
    IN  IF scored = {} THEN NoPath
        ELSE LET main == FirstIn(tex_files, top)
             IN  IF Score(tree[main].content) > 0 THEN main ELSE NoPath

\* LargestFile with the last file of the greatest size put first
LargestFile_LastWins(tree, tex_files) ==
    LET all == {tex_files[k] : k \in 1..Len(tex_files)}
        big == {p \in all : \A q \in all : tree[q].size <= tree[p].size}
    IN  LastIn(tex_files, big)

\* lines 154-155: sorted(..., reverse=True) is stable, so the first file of
\* the greatest size comes first
LargestFile(tree, tex_files) ==
    LET all == {tex_files[k] : k \in 1..Len(tex_files)}
        big == {p \in all : \A q \in all : tree[q].size <= tree[p].size}
    IN  FirstIn(tex_files, big)

\* find_main_tex with the structural score tried before the common names
find_main_tex_ScoreFirst(tree, order) ==
    LET tex_files == TexFiles(tree, order)
    IN  IF tex_files = << >> THEN NoPath
        ELSE IF BestScored(tree, tex_files) # NoPath
        THEN BestScored(tree, tex_files)
        ELSE IF FirstCommonName(tex_files) # NoPath
        THEN FirstCommonName(tex_files)
        ELSE LargestFile(tree, tex_files)

\* find_main_tex (lines 105-155)
find_main_tex(tree, order) ==
    LET tex_files == TexFiles(tree, order)
    IN  IF tex_files = << >> THEN NoPath
        ELSE IF FirstCommonName(tex_files) # NoPath
        THEN FirstCommonName(tex_files)
        ELSE IF BestScored(tree, tex_files) # NoPath
        THEN BestScored(tree, tex_files)
        ELSE LargestFile(tree, tex_files)

\* ---- the trees the detector is run on
MaxWalk == 3    \* files in a tree

DetectNames ==
    {Name("Main", TexExt), Name("MAIN", ".TEX"), Name("intro", TexExt),
     Name("refs", TexExt), Name("notes", TexExt)}
DetectContents ==
    {<<CommandItem("plain text")>>,
     <<CommandItem("\\usepackage")>>,
     <<CommandItem("\\documentclass"), CommandItem("\\title{"),
       CommandItem("\\documentclass")>>}
DetectSizes == 1..2
DetectFiles ==
    [readable : {TRUE}, content : DetectContents, size : DetectSizes]
    \cup [readable : {FALSE}, content : {<< >>}, size : DetectSizes]

InitDetect ==
    /\ \E n \in 0..MaxWalk :
        \E names \in [1..n -> DetectNames] :
            /\ \A i, j \in 1..n : i # j => names[i] # names[j]
            /\ walk = [k \in 1..n |-> Path(RootDir, names[k])]
            /\ fs \in [{Path(RootDir, names[k]) : k \in 1..n} -> DetectFiles]
    /\ main_tex = NoPath
    /\ combined = Pending
    /\ inlinePhase = "idle"
    /\ detectPhase = "input"
    /\ ParseIdle
    /\ PipeIdle

\* process_arxiv_link, line 240: main_tex = find_main_tex(extract_path)
FindMainTex ==
    /\ detectPhase = "input"
    /\ main_tex' = find_main_tex(fs, walk)
    /\ detectPhase' = "done"
    /\ UNCHANGED <<fs, walk, combined, inlinePhase, parseVars, pipeVars>>

NextDetect == FindMainTex
SpecDetect == InitDetect /\ [][NextDetect]_vars

WalkSet == {walk[k] : k \in 1..Len(walk)}

C9_HighestScoreFirstSeen ==
    detectPhase = "done" =>
        LET tex == {p \in WalkSet : EndsWithTex(p.name)}
            scored == {p \in tex : fs[p].readable}
            top == {p \in scored :
                       \A q \in scored : Score(fs[q].content) <= Score(fs[p].content)}
        IN  (/\ \A p \in tex : ~IsCommonName(p)
             /\ \E p \in scored : Score(fs[p].content) > 0)
                => main_tex = FirstIn(walk, top)

\* two files share the highest, positive, score, the first of them is
\* returned, and an unreadable .tex file comes before both in the walk
C9_TieAfterUnreadable ==
    /\ detectPhase = "done"
    /\ Len(walk) = 3
    /\ \A k \in 1..3 : EndsWithTex(walk[k].name) /\ ~IsCommonName(walk[k])
    /\ ~fs[walk[1]].readable
    /\ fs[walk[2]].readable /\ fs[walk[3]].readable
    /\ Score(fs[walk[2]].content) > 0
    /\ Score(fs[walk[2]].content) = Score(fs[walk[3]].content)
    /\ main_tex = walk[2]

\* C14: find_main_tex returns no result exactly when the tree holds no .tex
\* file; when no .tex file has a conventional name and no readable .tex file
\* has a positive score (no file may be readable at all), it returns the
\* .tex file of the greatest size, the first in traversal order among those
\* of that size.
C14_LargestFileFallback ==
    detectPhase = "done" =>
        LET tex == {p \in WalkSet : EndsWithTex(p.name)}
            big == {p \in tex : \A q \in tex : fs[q].size <= fs[p].size}
        IN  /\ main_tex = NoPath <=> tex = {}
            /\ (/\ tex # {}
                /\ \A p \in tex : ~IsCommonName(p)
                /\ \A p \in tex : fs[p].readable => Score(fs[p].content) = 0)
                    => main_tex = FirstIn(walk, big)

\* three .tex files without a conventional name and without a score, one of
\* them unreadable: the first is the smallest, the other two share the
\* greatest size, and the second is returned
C14_TieOnGreatestSize ==
    /\ detectPhase = "done"
    /\ Len(walk) = 3
    /\ \A k \in 1..3 : EndsWithTex(walk[k].name) /\ ~IsCommonName(walk[k])
    /\ \A k \in 1..3 : fs[walk[k]].readable => Score(fs[walk[k]].content) = 0
    /\ \E k \in 1..3 : ~fs[walk[k]].readable
    /\ \E k \in 1..3 : fs[walk[k]].readable
    /\ fs[walk[1]].size < fs[walk[2]].size
    /\ fs[walk[2]].size = fs[walk[3]].size
    /\ main_tex = walk[2]

(***************************************************************************)
(* process_arxiv_link and the cache                                        *)
(*                                                                         *)
(* The cache directory ~/.arxiv_cache is shared by every running instance  *)
(* of the program; an instance runs process_arxiv_link from the Download   *)
(* button, one request at a time.  disk maps a path below CACHE_DIR (its   *)
(* dir starts with the cache subdirectory) to the bytes of the file.  The  *)
(* steps of one request are the file-system and network calls it makes,    *)
(* which is where two instances can interleave.                            *)
(***************************************************************************)
\* 'source.tar.gz' (lines 34, 44, 62)
CacheFile == Name("source", ".tar.gz")

\* the part of the identifier after its last '/', as one directory name
RECURSIVE SafeId_AfterSeparator(_)
SafeId_AfterSeparator(id) ==
    IF id = << >> THEN ""
    ELSE IF \E k \in 1..Len(id) : id[k] = "/"
         THEN SafeId_AfterSeparator(Tail(id))
         ELSE Head(id) \o SafeId_AfterSeparator(Tail(id))

\* arxiv_id.replace('/', '_') (line 26), as one directory name
RECURSIVE SafeId(_)
SafeId(id) ==
    IF id = << >> THEN ""
    ELSE (IF Head(id) = "/" THEN "_" ELSE Head(id)) \o SafeId(Tail(id))

\* get_cache_subdir (lines 21-27): the directory below CACHE_DIR
get_cache_subdir(id) == <<SafeId(id)>>
\* os.path.join(cache_subdir, 'source.tar.gz')
TarPath(id) == Path(get_cache_subdir(id), CacheFile)
\* is_cached that takes a cached file for a hit only when it is an archive
\* that can be read to its end
is_cached_ChecksArchive(d, id) ==
    /\ TarPath(id) \in DOMAIN d
    /\ d[TarPath(id)].tar # << >>
    /\ ~d[TarPath(id)].tar[1].corrupt

\* is_cached (lines 29-35)
is_cached(d, id) == TarPath(id) \in DOMAIN d

\* the bytes of a file: text that can be read, or an archive (written in
\* full or only in part)
TextBytes(content) ==
    [readable |-> TRUE, content |-> content, size |-> Len(content),
     tar |-> << >>, complete |-> TRUE]
TarBytes(body, complete) ==
    [readable |-> FALSE, content |-> << >>, size |-> 1 + Len(body.entries),
     tar |-> <<body>>, complete |-> complete]

\* an archive: its members in order, and whether the stream breaks after the
\* last of them (a corrupt or truncated archive)
Member(segs, name, bytes) == [segs |-> segs, name |-> name, bytes |-> bytes]
Archive(entries, corrupt) == [entries |-> entries, corrupt |-> corrupt]

\* ---- the requests and the archives the server answers with
MaxRequests == 2    \* requests started, all instances together

Procs == {"p1", "p2"}

UrlX == LitArxivOrg \o <<"a", "b", "s", "/", "1", ".", "1">>
UrlY == LitArxivOrg \o <<"p", "d", "f", "/", "h", "/", "1", "2", "3", "4", "5", "6", "7">>
UrlInvalid == <<"1", ".", "1">>
PipeUrls == {UrlX, UrlY, UrlInvalid}
Keys == {SafeId(parse_arxiv_id(u)) : u \in {UrlX, UrlY}}
KeyY == SafeId(parse_arxiv_id(UrlY))

GoodArchive ==
    Archive(<<Member(<< >>, Name("main", TexExt),
                     TextBytes(<<CommandItem("\\documentclass"),
                                 DirectiveItem("input", Arg(<< >>, Name("sec1", ""))),
                                 CommandItem("\\maketitle")>>)),
              Member(<< >>, Name("sec1", TexExt),
                     TextBytes(<<CommandItem("section one")>>))>>, FALSE)
\* not a tar archive at all
CorruptArchive == Archive(<< >>, TRUE)
\* breaks after its first member
TruncatedArchive ==
    Archive(<<Member(<< >>, Name("intro", TexExt),
                     TextBytes(<<CommandItem("\\usepackage")>>))>>, TRUE)
\* has a member named like the cached archive itself
SelfArchive ==
    Archive(<<Member(<< >>, Name("main", TexExt),
                     TextBytes(<<CommandItem("body")>>)),
              Member(<< >>, CacheFile, TextBytes(<<CommandItem("data")>>))>>, FALSE)
\* has no .tex file, and a member '../<subdirectory of Y>/source.tar.gz'
EscapeArchive ==
    Archive(<<Member(<< >>, Name("notes", ".txt"),
                     TextBytes(<<CommandItem("notes")>>)),
              Member(<<"..", KeyY>>, CacheFile,
                     TextBytes(<<CommandItem("data")>>))>>, FALSE)
Bodies == {GoodArchive, CorruptArchive, TruncatedArchive, SelfArchive, EscapeArchive}

\* what requests.get and the streaming of the body can end in (lines 70-89)
Responses ==
    {[status |-> 200, raised |-> FALSE, body |-> <<b>>] : b \in Bodies}
    \cup {[status |-> 404, raised |-> FALSE, body |-> << >>],
          [status |-> 200, raised |-> TRUE, body |-> << >>]}

EmptyText == << >>

IdleProc ==
    [pc |-> "idle", id |-> None, tmp |-> << >>, opened |-> << >>,
     xpos |-> 0, flaky |-> FALSE, main |-> NoPath, output |-> EmptyText,
     \* a record of the last request: how it ended, the stages it entered,
     \* the files it wrote, those of them that extractall wrote, whether it
     \* called the network, whether the archive of its identifier had been
     \* stored when it started, and what the text widget showed then
     outcome |-> "Ready", stages |-> {}, wrote |-> {}, extracted |-> {},
     netUsed |-> FALSE,
     afterStore |-> FALSE, output0 |-> EmptyText, sawPartial |-> FALSE]

Init ==
    /\ tar_filter \in {"fully_trusted", "data"}
    /\ disk = << >>
    /\ dirs = {}
    /\ proc = [p \in Procs |-> IdleProc]
    /\ stored = [k \in Keys |-> << >>]
    /\ started = 0
    /\ ParseIdle
    /\ InlineIdle
    /\ DetectIdle

Key(p) == SafeId(proc[p].id)
others == <<parseVars, inlineVars, detectVars, tar_filter>>

\* the request of p ends with the given message
Ended(p, outcome) == [proc[p] EXCEPT !.pc = "idle", !.outcome = outcome]

\* d with bytes written to path
Written(d, path, bytes) ==
    [q \in DOMAIN d \cup {path} |-> IF q = path THEN bytes ELSE d[q]]

\* lines 214-220: the Download button with u in the entry field
Parse(p, u) ==
    /\ proc[p].pc = "idle"
    /\ started < MaxRequests
    /\ started' = started + 1
    /\ LET id == parse_arxiv_id(u)
           fresh == [proc[p] EXCEPT !.id = id, !.tmp = << >>, !.opened = << >>,
                        !.xpos = 0, !.flaky = FALSE, !.main = NoPath,
                        !.stages = {}, !.wrote = {}, !.extracted = {},
                        !.netUsed = FALSE,
                        !.afterStore = FALSE, !.sawPartial = FALSE,
                        !.output0 = proc[p].output]
       IN  IF id = None
           THEN proc' = [proc EXCEPT ![p] = [fresh EXCEPT !.outcome = "Invalid URL"]]
           ELSE proc' = [proc EXCEPT ![p] =
                    [fresh EXCEPT !.pc = "is_cached",
                                  !.output = EmptyText,
                                  !.outcome = "Starting process...",
                                  !.afterStore = stored[SafeId(id)] # << >>]]
    /\ UNCHANGED <<disk, dirs, stored, others>>

\* download_source, line 64
IsCached(p) ==
    /\ proc[p].pc = "is_cached"
    /\ proc' = [proc EXCEPT ![p] =
            IF is_cached(disk, proc[p].id)
            THEN [@ EXCEPT !.pc = "extract_open",
                           !.stages = @ \cup {"download"},
                           !.sawPartial = ~disk[TarPath(proc[p].id)].complete]
            ELSE [@ EXCEPT !.pc = "get", !.stages = @ \cup {"download"}]]
    /\ UNCHANGED <<disk, dirs, stored, started, others>>

\* download_source, lines 69-80 and 85-89: the GET and the body streamed
\* into a file of a fresh temporary directory
Download(p) ==
    /\ proc[p].pc = "get"
    /\ \E r \in Responses :
        proc' = [proc EXCEPT ![p] =
            IF r.status = 200 /\ ~r.raised
            THEN [@ EXCEPT !.pc = "cache_tar", !.tmp = r.body, !.netUsed = TRUE]
            ELSE [Ended(p, "Download Failed") EXCEPT !.netUsed = TRUE]]
    /\ UNCHANGED <<disk, dirs, stored, started, others>>

\* cache_tar, line 42
CacheTarExists(p) ==
    /\ proc[p].pc = "cache_tar"
    /\ proc' = [proc EXCEPT ![p].pc =
            IF Key(p) \in dirs THEN "copy_open" ELSE "makedirs"]
    /\ UNCHANGED <<disk, dirs, stored, started, others>>

\* cache_tar, line 43: os.makedirs raises when the directory was made in the
\* meantime, and download_source returns (None, None) at line 89
CacheTarMakedirs(p) ==
    /\ proc[p].pc = "makedirs"
    /\ IF Key(p) \in dirs
       THEN /\ proc' = [proc EXCEPT ![p] = Ended(p, "Download Failed")]
            /\ UNCHANGED dirs
       ELSE /\ proc' = [proc EXCEPT ![p].pc = "copy_open"]
            /\ dirs' = dirs \cup {Key(p)}
    /\ UNCHANGED <<disk, stored, started, others>>

\* cache_tar, line 45: shutil.copy opens the cached file for writing
CacheTarOpen(p) ==
    /\ proc[p].pc = "copy_open"
    /\ disk' = Written(disk, TarPath(proc[p].id), TarBytes(proc[p].tmp[1], FALSE))
    /\ proc' = [proc EXCEPT ![p].pc = "copy_write",
                            ![p].wrote = @ \cup {TarPath(proc[p].id)}]
    /\ UNCHANGED <<dirs, stored, started, others>>

\* cache_tar, line 45: the bytes are written and the file is closed
CacheTarWrite(p) ==
    /\ proc[p].pc = "copy_write"
    /\ disk' = Written(disk, TarPath(proc[p].id), TarBytes(proc[p].tmp[1], TRUE))
    /\ stored' = [stored EXCEPT ![Key(p)] = proc[p].tmp]
    /\ proc' = [proc EXCEPT ![p].pc = "extract_open"]
    /\ UNCHANGED <<dirs, started, others>>

\* where a member of the archive of cache subdirectory key is written:
\* os.path.join(extract_path, member name), "." and ".." resolved
MemberTarget(key, m) == Path(NormSegs(<< >>, <<key>> \o m.segs), m.name)
\* the member's resolved path leaves the destination directory
Escapes(key, m) ==
    LET d == MemberTarget(key, m).dir
    IN  d = << >> \/ d[1] # key

\* lines 234-240, with the extraction stage always taken as successful
AfterExtract_IgnoresFailure(success) == "find"

\* lines 234-240: process_arxiv_link returns when extract_tar returned False
AfterExtract(success) == IF success THEN "find" ELSE "idle"

\* extract_tar ended: True (success) or False
ExtractEnded(p, success) ==
    [proc[p] EXCEPT !.pc = AfterExtract(success),
                    !.outcome = IF success THEN "Extracting files..."
                                ELSE "Extraction Failed"]

\* extract_tar, line 98: tarfile.open on the cached file.  A file that is
\* being written by cache_tar, or is overwritten while it is read, can break
\* the stream at any later point (flaky).
ExtractOpen(p) ==
    /\ proc[p].pc = "extract_open"
    /\ LET bytes == disk[TarPath(proc[p].id)]
           began == [proc[p] EXCEPT !.stages = @ \cup {"extract"},
                                    !.opened = <<bytes>>,
                                    !.sawPartial = @ \/ ~bytes.complete]
       IN  proc' = [proc EXCEPT ![p] =
                IF bytes.tar = << >>
                THEN [began EXCEPT !.pc = AfterExtract(FALSE),
                                   !.outcome = "Extraction Failed"]
                ELSE [began EXCEPT !.pc = "extract_member", !.xpos = 1,
                                   !.flaky = ~bytes.complete]]
    /\ UNCHANGED <<disk, dirs, stored, started, others>>

\* extract_tar, line 99: extractall writes the next member, or ends
ExtractMember(p) ==
    /\ proc[p].pc = "extract_member"
    /\ LET body == proc[p].opened[1].tar[1]
           k == proc[p].xpos
       IN  IF k > Len(body.entries)
           THEN /\ proc' = [proc EXCEPT ![p] = ExtractEnded(p, ~body.corrupt)]
                /\ UNCHANGED <<disk, dirs>>
           ELSE LET m == body.entries[k]
                    target == MemberTarget(Key(p), m)
                IN  IF Escapes(Key(p), m) /\ tar_filter = "data"
                    THEN /\ proc' = [proc EXCEPT ![p] = ExtractEnded(p, FALSE)]
                         /\ UNCHANGED <<disk, dirs>>
                    ELSE /\ disk' = Written(disk, target, m.bytes)
                         /\ dirs' = dirs \cup (IF target.dir = << >> THEN {}
                                               ELSE {target.dir[1]})
                         /\ proc' = [proc EXCEPT
                                ![p].xpos = k + 1,
                                ![p].wrote = @ \cup {target},
                                ![p].extracted = @ \cup {target},
                                ![p].flaky = @ \/ target = TarPath(proc[p].id)]
    /\ UNCHANGED <<stored, started, others>>

\* extract_tar, lines 101-103: reading the archive fails under the reader
ExtractReadError(p) ==
    /\ proc[p].pc = "extract_member"
    /\ proc[p].flaky
    /\ proc' = [proc EXCEPT ![p] = ExtractEnded(p, FALSE)]
    /\ UNCHANGED <<disk, dirs, stored, started, others>>

\* the files os.walk(extract_path) finds
Subtree(d, key) == {q \in DOMAIN d : q.dir # << >> /\ q.dir[1] = key}
\* the orders in which a directory listing can give the files
Orders(files) ==
    {o \in [1..Cardinality(files) -> files] :
        \A i, j \in 1..Cardinality(files) : i # j => o[i] # o[j]}

\* lines 240-246
FindMain(p) ==
    /\ proc[p].pc = "find"
    /\ LET files == Subtree(disk, Key(p))
           tree == [q \in files |-> disk[q]]
       IN  \E order \in Orders(files) :
            LET found == find_main_tex(tree, order)
            IN  proc' = [proc EXCEPT ![p] =
                    IF found = NoPath
                    THEN [Ended(p, "No .tex File Found") EXCEPT
                             !.stages = @ \cup {"find"}]
                    ELSE [@ EXCEPT !.pc = "combine", !.main = found,
                                   !.stages = @ \cup {"find"}]]
    /\ UNCHANGED <<disk, dirs, stored, started, others>>

\* lines 249-259
Combine(p) ==
    /\ proc[p].pc = "combine"
    /\ LET r == combine_tex_files(disk, proc[p].main)
       IN  proc' = [proc EXCEPT ![p] =
                IF r.raised
                THEN [Ended(p, "Combining failed.") EXCEPT
                         !.stages = @ \cup {"combine"}]
                ELSE [Ended(p, "Completed.") EXCEPT
                         !.stages = @ \cup {"combine", "display"},
                         !.output = r.out]]
    /\ UNCHANGED <<disk, dirs, stored, started, others>>

Next ==
    \E p \in Procs :
        \/ \E u \in PipeUrls : Parse(p, u)
        \/ IsCached(p)
        \/ Download(p)
        \/ CacheTarExists(p)
        \/ CacheTarMakedirs(p)
        \/ CacheTarOpen(p)
        \/ CacheTarWrite(p)
        \/ ExtractOpen(p)
        \/ ExtractMember(p)
        \/ ExtractReadError(p)
        \/ FindMain(p)
        \/ Combine(p)

Spec == Init /\ [][Next]_vars

\* C3: once the archive of an identifier has been fetched and stored, a
\* resolution of that identifier started later makes no network call and
\* opens a cached archive identical to the one that was stored.
C3_CacheRoundTrip ==
    \A p \in Procs :
        proc[p].afterStore =>
            /\ ~proc[p].netUsed
            /\ proc[p].opened # << >> =>
                    proc[p].opened[1] = TarBytes(stored[Key(p)][1], TRUE)

\* download_source of p is between its cache miss and its return
InDownload(p) ==
    proc[p].pc \in {"get", "cache_tar", "makedirs", "copy_open", "copy_write"}

\* C4: of two download_source calls for one identifier that run at the same
\* time at most one performs the network fetch, and no call finds is_cached
\* true for, or opens, a cached archive that is only partly written.
C4_PopulationSerialized ==
    /\ \A p, q \in Procs :
        (/\ p # q
         /\ InDownload(p) /\ InDownload(q)
         /\ proc[p].id = proc[q].id)
            => ~(proc[p].netUsed /\ proc[q].netUsed)
    /\ \A p \in Procs : ~proc[p].sawPartial

\* C5: a resolution writes only inside the cache subdirectory of its own
\* identifier: no member of an archive is written outside the destination.
C5_WritesStayInside ==
    \A p \in Procs :
        \A w \in proc[p].wrote : w.dir # << >> /\ w.dir[1] = Key(p)

\* C6: a request that fails at parsing fetches, writes and clears nothing; a
\* request whose fetch fails writes nothing to the cache; and a request that
\* fails at parsing, fetching, extraction or detection enters no later stage
\* and leaves no combined text in the output.
C6_FailureAborts ==
    \A p \in Procs :
        LET r == proc[p]
        IN  /\ r.outcome = "Invalid URL" =>
                /\ r.stages = {} /\ ~r.netUsed /\ r.wrote = {}
                /\ r.output = r.output0
            /\ r.outcome = "Download Failed" =>
                /\ r.stages = {"download"} /\ r.wrote = {}
                /\ r.output = EmptyText
            /\ r.outcome = "Extraction Failed" =>
                /\ r.stages = {"download", "extract"}
                /\ r.output = EmptyText
            /\ r.outcome = "No .tex File Found" =>
                /\ r.stages = {"download", "extract", "find"}
                /\ r.output = EmptyText
            /\ r.outcome \in {"Invalid URL", "Download Failed",
                              "Extraction Failed", "No .tex File Found"} =>
                r.pc = "idle"

\* one instance ended in a failed fetch after its network call, the other
\* in a failed detection after it had extracted files
C6_FetchAndDetectionFailed ==
    \E p, q \in Procs :
        /\ proc[p].outcome = "Download Failed" /\ proc[p].netUsed
        /\ proc[q].outcome = "No .tex File Found" /\ proc[q].wrote # {}

\* C15: after extract_tar has returned failure, no file that this
\* extraction attempt wrote is in the destination directory.
C15_PartialExtractionDiscarded ==
    \A p \in Procs :
        proc[p].outcome = "Extraction Failed" =>
            \A w \in proc[p].extracted :
                ~(w \in DOMAIN disk /\ w.dir # << >> /\ w.dir[1] = Key(p))

\* the cache file of cache subdirectory key
CachedTar(key) == Path(<<key>>, CacheFile)
\* the request of p ended in a failed extraction, or has not ended yet, and
\* has not gone past extraction
FailsAtExtraction(p) ==
    /\ "find" \notin proc[p].stages
    /\ proc[p].pc = "idle" => proc[p].outcome = "Extraction Failed"

MaxSegLen == 2      \* letters of a legacy segment
MaxDigitRun == 2    \* digits on each side of the dot of a modern identifier
DigitSlack == 1     \* legacy digit counts LegacyDigits-DigitSlack .. +DigitSlack

DigitString == <<"1", "2", "3", "4", "5", "6", "7", "8", "9", "0">>
SegString == <<"h", "-", "t">>

UrlPre == {<< >>, <<"h", "t", "t", "p", "s", ":", "/", "/">>, <<"w", ".">>}
UrlHost == {LitArxivOrg, <<"a", "r", "x", "i", "v", "_", "o", "r", "g", "/">>, << >>}
UrlSeg == {<<"a", "b", "s", "/">>, <<"p", "d", "f", "/">>, <<"f", "m", "t", "/">>, << >>}
UrlBody ==
    {SubSeq(SegString, 1, n) \o <<"/">> \o SubSeq(DigitString, 1, m) :
        n \in 0..MaxSegLen,
        m \in (LegacyDigits - DigitSlack)..(LegacyDigits + DigitSlack)}
    \cup {<<"H", "/">> \o SubSeq(DigitString, 1, LegacyDigits)}
    \cup {SubSeq(DigitString, 1, a) \o <<".">> \o SubSeq(DigitString, 1, b) :
        a \in 0..MaxDigitRun, b \in 0..MaxDigitRun}
UrlPost == {<< >>, <<"v", "2">>, <<".", "p", "d", "f">>}

Urls == {p \o h \o g \o b \o q :
            p \in UrlPre, h \in UrlHost, g \in UrlSeg, b \in UrlBody, q \in UrlPost}

InitParse ==
    /\ url \in Urls
    /\ arxiv_id = Pending
    /\ reparsed = Pending
    /\ parsePhase = "input"
    /\ KeysIdle
    /\ InlineIdle
    /\ DetectIdle
    /\ PipeIdle

\* process_arxiv_link, line 214: arxiv_id = parse_arxiv_id(arxiv_url)
ParseUrl ==
    /\ parsePhase = "input"
    /\ arxiv_id' = parse_arxiv_id(url)
    /\ parsePhase' = "parsed"
    /\ UNCHANGED <<url, reparsed, url2, arxiv_id2, cache_subdirs>>
    /\ UNCHANGED <<inlineVars, detectVars, pipeVars>>

\* the returned identifier given to parse_arxiv_id again
ReparseId ==
    /\ parsePhase = "parsed"
    /\ arxiv_id # None
    /\ reparsed' = parse_arxiv_id(arxiv_id)
    /\ parsePhase' = "reparsed"
    /\ UNCHANGED <<url, arxiv_id, url2, arxiv_id2, cache_subdirs>>
    /\ UNCHANGED <<inlineVars, detectVars, pipeVars>>

NextParse == ParseUrl \/ ReparseId
SpecParse == InitParse /\ [][NextParse]_vars

\* C10: for every reference string that parse_arxiv_id accepts, parsing the
\* returned identifier again returns that same identifier.
C10_ReparseIdempotent ==
    parsePhase = "reparsed" => reparsed = arxiv_id

(***************************************************************************)
(* the runs of get_cache_subdir on the identifiers of two references       *)
(***************************************************************************)
\* the reference strings: every body after both path segments
KeyUrls ==
    {LitArxivOrg \o g \o b \o q :
        g \in {<<"a", "b", "s", "/">>, <<"p", "d", "f", "/">>},
        b \in UrlBody, q \in UrlPost}

InitKeys ==
    /\ url \in KeyUrls
    /\ url2 \in KeyUrls
    /\ arxiv_id = Pending
    /\ arxiv_id2 = Pending
    /\ cache_subdirs = Pending
    /\ reparsed = Pending
    /\ parsePhase = "input"
    /\ InlineIdle
    /\ DetectIdle
    /\ PipeIdle

\* process_arxiv_link, line 214, for each of the two references
ParseReferences ==
    /\ parsePhase = "input"
    /\ arxiv_id' = parse_arxiv_id(url)
    /\ arxiv_id2' = parse_arxiv_id(url2)
    /\ parsePhase' = "parsed"
    /\ UNCHANGED <<url, url2, reparsed, cache_subdirs>>
    /\ UNCHANGED <<inlineVars, detectVars, pipeVars>>

\* download_source, line 61, for each of the two identifiers
GetCacheSubdirs ==
    /\ parsePhase = "parsed"
    /\ arxiv_id # None
    /\ arxiv_id2 # None
    /\ cache_subdirs' = <<get_cache_subdir(arxiv_id), get_cache_subdir(arxiv_id2)>>
    /\ parsePhase' = "located"
    /\ UNCHANGED <<url, url2, arxiv_id, arxiv_id2, reparsed>>
    /\ UNCHANGED <<inlineVars, detectVars, pipeVars>>

NextKeys == ParseReferences \/ GetCacheSubdirs
SpecKeys == InitKeys /\ [][NextKeys]_vars

\* C16: two identifiers that parse_arxiv_id accepted have the same cache
\* location exactly when they are the same identifier.
C16_OneEntryPerIdentifier ==
    parsePhase = "located" =>
        (cache_subdirs[1] = cache_subdirs[2] <=> arxiv_id = arxiv_id2)

\* two legacy identifiers that differ only before the '/', each with its
\* own location in which the '/' is replaced
C16_LegacyIdsApart ==
    /\ parsePhase = "located"
    /\ arxiv_id # arxiv_id2
    /\ \E k \in 1..Len(arxiv_id) : arxiv_id[k] = "/"
    /\ \E k \in 1..Len(arxiv_id2) : arxiv_id2[k] = "/"
    /\ cache_subdirs[1] # cache_subdirs[2]
====
